---- MODULE Spec2Model ----
(***************************************************************************)
(* Model of cyclonedx_py/parser/poetry.py: PoetryParser.__init__ turns a   *)
(* decoded poetry.lock document (and an optional pyproject.toml) into a    *)
(* list of components; PoetryFileParser.__init__ reads both from disk.     *)
(*                                                                         *)
(* Python dicts are functions with a string domain (a missing key is a key *)
(* outside DOMAIN), lists are sequences, None is the empty tuple.  A text  *)
(* is modelled by the document the TOML decoder makes of it: the empty     *)
(* text is <<>> and a non-empty text is <<document>>.  Strings that the    *)
(* code takes apart (lock-version, composite hashes) or puts together      *)
(* (purl, url, comment) are sequences of tokens.                           *)
(***************************************************************************)
EXTENDS Integers, Sequences, FiniteSets, TLC

\* ---------------------------------------------------------------- bounds
MaxVerLen == 3
MaxPkgs == 2
MaxFiles == 2

\* ------------------------------------------------------- python helpers
None == <<>>

EmptyDict == <<>>

HasKey(d, k) == k \in DOMAIN d

\* str.split(sep) of a token sequence: always at least one part
RECURSIVE Split(_, _)
Split(s, sep) ==
  IF \A i \in 1..Len(s) : s[i] # sep
  THEN <<s>>
  ELSE LET k == CHOOSE i \in 1..Len(s) :
                  s[i] = sep /\ \A j \in 1..(i - 1) : s[j] # sep
       IN  <<SubSeq(s, 1, k - 1)>> \o Split(SubSeq(s, k + 1, Len(s)), sep)

Digits == {"0", "1", "2"}

DigitVal(c) == IF c = "0" THEN 0 ELSE IF c = "1" THEN 1 ELSE 2

\* does int(s) accept s: an optional sign and at least one digit
IntParses(s) ==
  LET body == IF Len(s) > 0 /\ s[1] = "-" THEN Tail(s) ELSE s
  IN  Len(body) > 0 /\ \A i \in 1..Len(body) : body[i] \in Digits

RECURSIVE Decimal(_)
Decimal(s) ==
  IF Len(s) = 0 THEN 0
  ELSE 10 * Decimal(SubSeq(s, 1, Len(s) - 1)) + DigitVal(s[Len(s)])

IntOf(s) == IF s[1] = "-" THEN 0 - Decimal(Tail(s)) ELSE Decimal(s)

\* variant: the comparison written > instead of >=
RECURSIVE TupleGT(_, _)
TupleGT(a, b) ==
  IF Len(a) = 0 THEN FALSE
  ELSE IF Len(b) = 0 THEN TRUE
  ELSE IF a[1] # b[1] THEN a[1] > b[1]
  ELSE TupleGT(Tail(a), Tail(b))

\* tuple >= tuple, Python's lexicographic order on tuples of ints
RECURSIVE TupleGE(_, _)
TupleGE(a, b) ==
  IF Len(b) = 0 THEN TRUE
  ELSE IF Len(a) = 0 THEN FALSE
  ELSE IF a[1] # b[1] THEN a[1] > b[1]
  ELSE TupleGE(Tail(a), Tail(b))

\* load_toml: the document a text decodes to
load_toml(text) == IF Len(text) = 0 THEN EmptyDict ELSE text[1]

\* ------------------------------------------------------------- the state
VARIABLES
  cls,                     \* the constructor the caller invokes
  poetry_lock_filename,    \* PoetryFileParser arguments
  poetry_toml_filename,
  disk,                    \* filename -> text, the files open() can read
  poetry_lock_contents,    \* PoetryParser arguments
  pyproject_toml_contents,
  use_purl_bom_ref,
  pc,                      \* position in the constructor
  poetry_lock_version,
  idx,                     \* position of the package loop
  _components,             \* self._components
  _metadata,               \* self._metadata
  warnings,                \* 'Warning: suppressed' debug messages
  raised,                  \* the exception that left the constructor
  parser                   \* what the caller obtains: <<>> or <<object>>

vars == <<cls, poetry_lock_filename, poetry_toml_filename, disk,
          poetry_lock_contents, pyproject_toml_contents, use_purl_bom_ref,
          pc, poetry_lock_version, idx, _components, _metadata, warnings,
          raised, parser>>

args == <<cls, poetry_lock_filename, poetry_toml_filename, disk,
          use_purl_bom_ref>>

poetry_lock == load_toml(poetry_lock_contents)

\* ------------------------------------------------- lines 60-65: version
DefaultLockVersion == <<0>>

NewSchema == <<2>>

\* variant: parts that int() rejects are skipped instead of defaulting
lock_version_skipping(poetry_lock_metadata) ==
  IF ~HasKey(poetry_lock_metadata, "lock-version")
  THEN DefaultLockVersion
  ELSE LET parts == Split(poetry_lock_metadata["lock-version"], ".")
           numeric == SelectSeq(parts, IntParses)
       IN  IF Len(numeric) > 0
           THEN [i \in 1..Len(numeric) |-> IntOf(numeric[i])]
           ELSE DefaultLockVersion

lock_version_of(poetry_lock_metadata) ==
  IF ~HasKey(poetry_lock_metadata, "lock-version")
  THEN DefaultLockVersion
  ELSE LET parts == Split(poetry_lock_metadata["lock-version"], ".")
       IN  IF \A i \in 1..Len(parts) : IntParses(parts[i])
           THEN [i \in 1..Len(parts) |-> IntOf(parts[i])]
           ELSE DefaultLockVersion

\* ------------------------------------------ lines 71-76: purl, component
PackageURL(type, name, version) ==
  [type |-> type, name |-> name, version |-> version]

to_string(purl) == <<"pkg:", purl.type, "/", purl.name, "@", purl.version>>

\* variant: the reference key set whatever use_purl_bom_ref says
bom_ref_always(purl, use_purl) == to_string(purl)

bom_ref_of(purl, use_purl) == IF use_purl THEN to_string(purl) ELSE None

Component(name, bom_ref, version, purl) ==
  [name |-> name, bom_ref |-> bom_ref, version |-> version, purl |-> purl,
   properties |-> {}, external_references |-> {}]

get_pypi_url(component) ==
  <<"https://pypi.org/project/", component.name, "/", component.version>>

\* ------------------------------------------- lines 77-81: package group
PackageGroup == "cdx:poetry:package:group"

\* variant: "is not None" instead of truthiness
has_category_is_not_None(package) == HasKey(package, "category")

\* package.get('category') is truthy: the key is there and not empty
has_category(package) == HasKey(package, "category") /\ package["category"] # ""

with_category(component, package) ==
  IF has_category(package)
  THEN [component EXCEPT !.properties =
          @ \cup {[name |-> PackageGroup, value |-> package["category"]]}]
  ELSE component

\* variant: the new schema still prefers a metadata.files entry
package_files_table_first(package, lock_version, poetry_lock_metadata) ==
  IF TupleGE(lock_version, NewSchema)
  THEN IF ~HasKey(package, "files")
       THEN [raised |-> "KeyError", files |-> <<>>]
       ELSE IF HasKey(poetry_lock_metadata, "files")
               /\ HasKey(poetry_lock_metadata["files"], package["name"])
       THEN [raised |-> "",
             files |-> poetry_lock_metadata["files"][package["name"]]]
       ELSE [raised |-> "", files |-> package["files"]]
  ELSE IF HasKey(poetry_lock_metadata, "files")
          /\ HasKey(poetry_lock_metadata["files"], package["name"])
       THEN [raised |-> "",
             files |-> poetry_lock_metadata["files"][package["name"]]]
       ELSE [raised |-> "KeyError", files |-> <<>>]

\* ------------------------------------------ lines 83-85: package_files
\* [raised, files]: the KeyError of a missing key, or the descriptor list
package_files_of(package, lock_version, poetry_lock_metadata) ==
  IF TupleGE(lock_version, NewSchema)
  THEN IF HasKey(package, "files")
       THEN [raised |-> "", files |-> package["files"]]
       ELSE [raised |-> "KeyError", files |-> <<>>]
  ELSE IF HasKey(poetry_lock_metadata, "files")
          /\ HasKey(poetry_lock_metadata["files"], package["name"])
       THEN [raised |-> "",
             files |-> poetry_lock_metadata["files"][package["name"]]]
       ELSE [raised |-> "KeyError", files |-> <<>>]

\* ------------------------------------- lines 87-99: external references
HashAlgorithms == {"md5", "sha256"}

\* HashType.from_composite_str: "algorithm:digest" -> hash, or a
\* CycloneDxModelException for a string that is not of that form
from_composite_str(composite_hash) ==
  LET parts == Split(composite_hash, ":")
  IN  IF Len(parts) = 2 /\ Len(parts[1]) = 1 /\ parts[1][1] \in HashAlgorithms
      THEN [raised |-> "", alg |-> parts[1][1], content |-> parts[2]]
      ELSE [raised |-> "CycloneDxModelException", alg |-> "", content |-> <<>>]

ExternalReference(url, comment, hash) ==
  [type |-> "distribution", url |-> url, comment |-> comment,
   hashes |-> <<[alg |-> hash.alg, content |-> hash.content]>>]

\* variant: the loop body without its try/except
add_reference_unguarded(component, file_metadata) ==
  IF ~HasKey(file_metadata, "file") \/ ~HasKey(file_metadata, "hash")
  THEN [raised |-> "KeyError", refs |-> {}, warned |-> FALSE]
  ELSE LET hash == from_composite_str(file_metadata["hash"])
       IN  IF hash.raised = "CycloneDxModelException"
           THEN [raised |-> hash.raised, refs |-> {}, warned |-> FALSE]
           ELSE [raised |-> "", warned |-> FALSE,
                 refs |-> {ExternalReference(
                             get_pypi_url(component),
                             <<"Distribution file: ", file_metadata["file"]>>,
                             hash)}]

\* one pass of the loop body: [raised, refs, warned]
add_reference(component, file_metadata) ==
  IF ~HasKey(file_metadata, "file") \/ ~HasKey(file_metadata, "hash")
  THEN [raised |-> "KeyError", refs |-> {}, warned |-> FALSE]
  ELSE LET hash == from_composite_str(file_metadata["hash"])
       IN  IF hash.raised = "CycloneDxModelException"
           THEN [raised |-> "", refs |-> {}, warned |-> TRUE]
           ELSE [raised |-> "", warned |-> FALSE,
                 refs |-> {ExternalReference(
                             get_pypi_url(component),
                             <<"Distribution file: ", file_metadata["file"]>>,
                             hash)}]

\* the loop over package_files from descriptor k on:
\* [raised, refs, warned] with warned the positions whose hash was suppressed
RECURSIVE references_from(_, _, _)
references_from(component, package_files, k) ==
  IF k > Len(package_files)
  THEN [raised |-> "", refs |-> {}, warned |-> <<>>]
  ELSE LET one == add_reference(component, package_files[k])
       IN  IF one.raised # ""
           THEN [raised |-> one.raised, refs |-> one.refs, warned |-> <<>>]
           ELSE LET rest == references_from(component, package_files, k + 1)
                IN  [raised |-> rest.raised,
                     refs |-> one.refs \cup rest.refs,
                     warned |-> (IF one.warned THEN <<k>> ELSE <<>>)
                                  \o rest.warned]

\* ------------------------------------ lines 69-100: one package entry
\* [raised, component, warned]
build_component(package, use_purl, lock_version, poetry_lock_metadata) ==
  IF ~HasKey(package, "name") \/ ~HasKey(package, "version")
  THEN [raised |-> "KeyError", component |-> None, warned |-> <<>>]
  ELSE
    LET purl == PackageURL("pypi", package["name"], package["version"])
        bare == Component(package["name"], bom_ref_of(purl, use_purl),
                          package["version"], purl)
        grouped == with_category(bare, package)
        found == package_files_of(package, lock_version, poetry_lock_metadata)
        refs == references_from(grouped, found.files, 1)
    IN  IF found.raised # ""
        THEN [raised |-> found.raised, component |-> None, warned |-> <<>>]
        ELSE IF refs.raised # ""
        THEN [raised |-> refs.raised, component |-> None,
              warned |-> refs.warned]
        ELSE [raised |-> "", warned |-> refs.warned,
              component |-> [grouped EXCEPT !.external_references = refs.refs]]

\* variant: a component equal to an earlier one is not appended
append_unique(components, component) ==
  IF \E i \in 1..Len(components) : components[i] = component
  THEN components
  ELSE Append(components, component)

\* line 100: self._components.append(component)
append(components, component) == Append(components, component)

\* lines 58-100 as one fold: [raised, components] of a lock document
RECURSIVE build_from(_, _, _, _, _)
build_from(packages, use_purl, lock_version, poetry_lock_metadata, i) ==
  IF i > Len(packages)
  THEN [raised |-> "", components |-> <<>>]
  ELSE LET built == build_component(packages[i], use_purl, lock_version,
                                    poetry_lock_metadata)
           rest == build_from(packages, use_purl, lock_version,
                              poetry_lock_metadata, i + 1)
       IN  IF built.raised # ""
           THEN [raised |-> built.raised, components |-> <<>>]
           ELSE IF rest.raised # ""
           THEN rest
           ELSE [raised |-> "",
                 components |-> <<built.component>> \o rest.components]

convert(lock, use_purl) ==
  IF ~HasKey(lock, "metadata") \/ ~HasKey(lock, "package")
  THEN [raised |-> "KeyError", components |-> <<>>]
  ELSE build_from(lock["package"], use_purl,
                  lock_version_of(lock["metadata"]), lock["metadata"], 1)

\* ------------------------------------------ lines 102-108: root metadata
\* [raised, metadata]
root_metadata(contents) ==
  IF Len(contents) = 0
  THEN [raised |-> "", metadata |-> None]
  ELSE LET poetry_toml == load_toml(contents)
       IN  IF ~HasKey(poetry_toml, "tool")
           THEN [raised |-> "AttributeError", metadata |-> None]
           ELSE IF ~HasKey(poetry_toml["tool"], "poetry")
           THEN [raised |-> "TypeError", metadata |-> None]
           ELSE LET poetry_toml_metadata == poetry_toml["tool"]["poetry"]
                IN  IF ~HasKey(poetry_toml_metadata, "name")
                       \/ ~HasKey(poetry_toml_metadata, "version")
                    THEN [raised |-> "KeyError", metadata |-> None]
                    ELSE [raised |-> "",
                          metadata |->
                            [name |-> poetry_toml_metadata["name"],
                             version |-> poetry_toml_metadata["version"]]]

\* variant: the object handed out although the constructor raised
returned_anyway(exception, components, metadata) ==
  <<[components |-> components, metadata |-> metadata]>>

\* what a constructor call leaves with its caller
returned(exception, components, metadata) ==
  IF exception = ""
  THEN <<[components |-> components, metadata |-> metadata]>>
  ELSE <<>>

\* ------------------------------------------------------------ the steps
Raise(exception) ==
  /\ pc' = "raised"
  /\ raised' = exception
  /\ parser' = returned(exception, _components, _metadata)

\* PoetryFileParser.__init__: open and read both files, then the base class
PoetryFileParserInit ==
  /\ pc = "open"
  /\ IF ~HasKey(disk, poetry_lock_filename) \/ ~HasKey(disk, poetry_toml_filename)
     THEN /\ Raise("FileNotFoundError")
          /\ UNCHANGED <<poetry_lock_contents, pyproject_toml_contents>>
     ELSE /\ poetry_lock_contents' = disk[poetry_lock_filename]
          /\ pyproject_toml_contents' = disk[poetry_toml_filename]
          /\ pc' = "init"
          /\ UNCHANGED <<raised, parser>>
  /\ UNCHANGED <<args, poetry_lock_version, idx, _components, _metadata,
                 warnings>>

\* lines 58-68: decode the lock, detect its version, reach the package loop
LoadLock ==
  /\ pc = "init"
  /\ IF ~HasKey(poetry_lock, "metadata")
     THEN Raise("KeyError") /\ UNCHANGED poetry_lock_version
     ELSE /\ poetry_lock_version' = lock_version_of(poetry_lock["metadata"])
          /\ IF ~HasKey(poetry_lock, "package")
             THEN Raise("KeyError")
             ELSE pc' = "package" /\ UNCHANGED <<raised, parser>>
  /\ UNCHANGED <<args, poetry_lock_contents, pyproject_toml_contents, idx,
                 _components, _metadata, warnings>>

\* lines 68-100: one turn of the package loop
ProcessPackage ==
  /\ pc = "package"
  /\ idx <= Len(poetry_lock["package"])
  /\ LET built == build_component(poetry_lock["package"][idx], use_purl_bom_ref,
                                  poetry_lock_version, poetry_lock["metadata"])
     IN  /\ warnings' = warnings \o [k \in 1..Len(built.warned) |->
                                      <<idx, built.warned[k]>>]
         /\ IF built.raised # ""
            THEN Raise(built.raised) /\ UNCHANGED <<idx, _components>>
            ELSE /\ _components' = append(_components, built.component)
                 /\ idx' = idx + 1
                 /\ UNCHANGED <<pc, raised, parser>>
  /\ UNCHANGED <<args, poetry_lock_contents, pyproject_toml_contents,
                 poetry_lock_version, _metadata>>

\* lines 102-108: the root metadata, and the constructor returns
RootMetadata ==
  /\ pc = "package"
  /\ idx > Len(poetry_lock["package"])
  /\ LET root == root_metadata(pyproject_toml_contents)
     IN  IF root.raised # ""
         THEN Raise(root.raised) /\ UNCHANGED _metadata
         ELSE /\ _metadata' = root.metadata
              /\ pc' = "done"
              /\ parser' = returned("", _components, root.metadata)
              /\ UNCHANGED raised
  /\ UNCHANGED <<args, poetry_lock_contents, pyproject_toml_contents,
                 poetry_lock_version, idx, _components, warnings>>

Next == PoetryFileParserInit \/ LoadLock \/ ProcessPackage \/ RootMetadata

\* ------------------------------------------------------------ the inputs
Opt(k, vals) == {EmptyDict} \cup {k :> v : v \in vals}

SeqsUpTo(S, n) == UNION {[1..k -> S] : k \in 0..n}

Text(document) == <<document>>

EmptyText == <<>>

\* lock-version strings, character by character
VerChars == {"0", "1", "2", ".", "g", "-"}

LockVersions == SeqsUpTo(VerChars, MaxVerLen)

SomeLockVersions == {<<"g">>, <<"1", ".", "1">>, <<"2">>, <<"2", ".", "1">>}

GoodHash == <<"sha256", ":", "abcd">>

BadHash == <<"not-a-valid-hash">>

Descriptors ==
  {f @@ h : f \in Opt("file", {"f1", "f2"}), h \in Opt("hash", {GoodHash, BadHash})}

FileLists == SeqsUpTo(Descriptors, MaxFiles)

F1Good == ("file" :> "f1") @@ ("hash" :> GoodHash)

F2Good == ("file" :> "f2") @@ ("hash" :> GoodHash)

F2Bad == ("file" :> "f2") @@ ("hash" :> BadHash)

Names == {"a", "b"}

PackageIdentities ==
  {n @@ v @@ c : n \in Opt("name", Names), v \in Opt("version", {"1", "2"}),
                 c \in Opt("category", {"", "main"})}

Metadata(lock_versions, tables) ==
  {v @@ t : v \in Opt("lock-version", lock_versions), t \in Opt("files", tables)}

LockDocument(metadatas, package_lists) ==
  {m @@ p : m \in Opt("metadata", metadatas), p \in Opt("package", package_lists)}

Manifests ==
  {EmptyText, Text(EmptyDict), Text("tool" :> EmptyDict)}
    \cup {Text("tool" :> ("poetry" :> (n @@ v))) :
            n \in Opt("name", {"proj"}), v \in Opt("version", {"0.1"})}

DirectCall(lock, manifest, use_purl) ==
  /\ cls = "PoetryParser"
  /\ poetry_lock_filename = ""
  /\ poetry_toml_filename = ""
  /\ disk = EmptyDict
  /\ poetry_lock_contents = Text(lock)
  /\ pyproject_toml_contents = manifest
  /\ use_purl_bom_ref = use_purl
  /\ pc = "init"

FileCall(lock_filename, toml_filename, files, use_purl) ==
  /\ cls = "PoetryFileParser"
  /\ poetry_lock_filename = lock_filename
  /\ poetry_toml_filename = toml_filename
  /\ disk = files
  /\ poetry_lock_contents = EmptyText
  /\ pyproject_toml_contents = EmptyText
  /\ use_purl_bom_ref = use_purl
  /\ pc = "open"

\* every lock-version string, on a package whose inline files and
\* metadata.files entry differ or are missing
InitLockVersions ==
  \E v \in Opt("lock-version", LockVersions),
     t \in Opt("files", {"a" :> <<F2Good>>}),
     f \in Opt("files", {<<F1Good>>}) :
    DirectCall(("metadata" :> (v @@ t))
                 @@ ("package" :> <<("name" :> "a") @@ ("version" :> "1") @@ f>>),
               EmptyText, FALSE)

\* every list of package entries, each with and without its fields
InitPackages ==
  \E ids \in SeqsUpTo(PackageIdentities, MaxPkgs),
     v \in {<<"1", ".", "1">>, <<"2", ".", "0">>},
     use_purl \in BOOLEAN :
    DirectCall(
      ("metadata" :> (("lock-version" :> v)
                        @@ ("files" :> (("a" :> <<F1Good, F2Bad>>) @@ ("b" :> <<>>)))))
        @@ ("package" :> [i \in 1..Len(ids) |-> ids[i] @@ ("files" :> <<F1Good>>)]),
      EmptyText, use_purl)

\* every list of file descriptors, inline or in metadata.files
InitFiles ==
  \E v \in Opt("lock-version", SomeLockVersions),
     fs \in FileLists, inline \in BOOLEAN,
     other \in {EmptyDict, "files" :> <<>>, "files" :> <<F2Good>>},
     c \in Opt("category", {"main"}) :
    LET table == IF inline
                 THEN IF HasKey(other, "files")
                      THEN "files" :> ("a" :> other["files"])
                      ELSE EmptyDict
                 ELSE "files" :> ("a" :> fs)
        files == IF inline THEN "files" :> fs ELSE other
    IN  DirectCall(("metadata" :> (v @@ table))
                     @@ ("package" :> <<("name" :> "a") @@ ("version" :> "1")
                                          @@ c @@ files>>),
                   EmptyText, TRUE)

\* package lists whose names may have no entry in metadata.files
InitTables ==
  \E v \in SomeLockVersions,
     names \in SeqsUpTo(Names, MaxPkgs),
     table \in Opt("files", {EmptyDict, "a" :> <<>>, "a" :> <<F1Good>>,
                             ("a" :> <<F2Bad>>) @@ ("b" :> <<F2Good>>)}),
     f \in Opt("files", {<<>>, <<F1Good>>}) :
    DirectCall(("metadata" :> (("lock-version" :> v) @@ table))
                 @@ ("package" :> [i \in 1..Len(names) |->
                       ("name" :> names[i]) @@ ("version" :> "1") @@ f]),
               EmptyText, FALSE)

SomeLocks ==
  LockDocument(
    {("lock-version" :> <<"2", ".", "0">>)},
    {<<>>, <<("name" :> "a") @@ ("version" :> "1") @@ ("files" :> <<F1Good>>)>>,
     <<("version" :> "1") @@ ("files" :> <<>>)>>})

\* every manifest, handed over as a text or through the file parser
InitManifests ==
  \E lock \in SomeLocks, use_purl \in BOOLEAN :
    \/ \E manifest \in Manifests : DirectCall(lock, manifest, use_purl)
    \/ \E lock_filename \in {"poetry.lock", "missing.lock"},
          toml_filename \in {"", "pyproject.toml"},
          toml \in Opt("pyproject.toml", Manifests) :
         FileCall(lock_filename, toml_filename,
                  ("poetry.lock" :> Text(lock)) @@ toml, use_purl)

Init ==
  /\ \/ InitLockVersions
     \/ InitPackages
     \/ InitFiles
     \/ InitTables
     \/ InitManifests
  /\ poetry_lock_version = <<>>
  /\ idx = 1
  /\ _components = <<>>
  /\ _metadata = None
  /\ warnings = <<>>
  /\ raised = ""
  /\ parser = <<>>

Spec == Init /\ [][Next]_vars

\* ------------------------------------------------------------ properties
Terminated == pc \in {"done", "raised"}

\* the lock document has been decoded and holds its two sections
Loaded ==
  /\ poetry_lock_contents # EmptyText
  /\ HasKey(poetry_lock, "metadata")
  /\ HasKey(poetry_lock, "package")

Entries == poetry_lock["package"]

Identified(package) == HasKey(package, "name") /\ HasKey(package, "version")

\* generation >= (2,), read off the first number of the detected tuple
NewGeneration == poetry_lock_version[1] >= 2

Complete(file_metadata) ==
  HasKey(file_metadata, "file") /\ HasKey(file_metadata, "hash")

\* the entry's descriptors can be found where its generation keeps them
Resolvable(package) ==
  IF NewGeneration
  THEN HasKey(package, "files")
  ELSE /\ HasKey(poetry_lock["metadata"], "files")
       /\ HasKey(poetry_lock["metadata"]["files"], package["name"])

DescriptorsOf(package) ==
  IF NewGeneration
  THEN package["files"]
  ELSE poetry_lock["metadata"]["files"][package["name"]]

WellFormed(package) ==
  /\ Identified(package)
  /\ Resolvable(package)
  /\ \A k \in 1..Len(DescriptorsOf(package)) : Complete(DescriptorsOf(package)[k])

ValidLock == Loaded /\ \A i \in 1..Len(Entries) : WellFormed(Entries[i])

\* C1: for every valid lock document the package loop produces exactly one
\* component per package entry, in entry order: as many components as
\* entries, the i-th component carrying the name and version of the i-th
\* entry, entries with the same name and version both emitted; and the list
\* the caller obtains is that list.
C1_OnePerEntry ==
  /\ (Terminated /\ ValidLock) =>
       /\ Len(_components) = Len(Entries)
       /\ \A i \in 1..Len(Entries) :
            /\ _components[i].name = Entries[i]["name"]
            /\ _components[i].version = Entries[i]["version"]
  /\ pc = "done" => ValidLock /\ parser[1].components = _components

C1_Witness ==
  /\ pc = "done"
  /\ Len(Entries) = 2
  /\ Entries[1]["name"] = Entries[2]["name"]
  /\ Entries[1]["version"] = Entries[2]["version"]
  /\ Len(parser[1].components) = 2
  /\ parser[1].components[2].name = Entries[1]["name"]

\* C8: every component carries the package identifier (pypi, name, version)
\* of its entry; its reference key is the identifier's string form when
\* use_purl_bom_ref is set and unset otherwise; entries with the same name
\* and version get the same identifier and the same reference key.
C8_Identifier ==
  \A i \in 1..Len(_components) :
    /\ _components[i].purl = [type |-> "pypi", name |-> Entries[i]["name"],
                              version |-> Entries[i]["version"]]
    /\ _components[i].bom_ref =
         IF use_purl_bom_ref
         THEN <<"pkg:", "pypi", "/", Entries[i]["name"], "@", Entries[i]["version"]>>
         ELSE None
    /\ \A j \in 1..Len(_components) :
         (/\ Entries[i]["name"] = Entries[j]["name"]
          /\ Entries[i]["version"] = Entries[j]["version"])
           => /\ _components[i].purl = _components[j].purl
              /\ _components[i].bom_ref = _components[j].bom_ref

C8_Witness ==
  /\ pc = "done"
  /\ use_purl_bom_ref
  /\ Len(_components) = 2
  /\ Entries[1]["name"] = "a" /\ Entries[2]["name"] = "a"
  /\ Entries[1]["version"] = "2" /\ Entries[2]["version"] = "2"
  /\ _components[2].bom_ref = <<"pkg:", "pypi", "/", "a", "@", "2">>

\* C9: a component carries exactly one "package group" annotation, valued
\* with the entry's category, when the entry has a non-empty category, and
\* no annotation at all (not an empty-valued one) when the entry has no
\* category or an empty one; nothing else is annotated.
C9_GroupAnnotation ==
  \A i \in 1..Len(_components) :
    _components[i].properties =
      IF HasKey(Entries[i], "category") /\ Entries[i]["category"] # ""
      THEN {[name |-> "cdx:poetry:package:group", value |-> Entries[i]["category"]]}
      ELSE {}

C9_Witness ==
  /\ pc = "done"
  /\ Len(_components) = 2
  /\ HasKey(Entries[1], "category")
  /\ Entries[1]["category"] = "main"
  /\ Cardinality(_components[1].properties) = 1
  /\ HasKey(Entries[2], "category")
  /\ Entries[2]["category"] = ""
  /\ _components[2].properties = {}

\* the distribution references of the descriptors of fs whose hash parses
ExpectedRefs(name, version, fs) ==
  {[type |-> "distribution",
    url |-> <<"https://pypi.org/project/", name, "/", version>>,
    comment |-> <<"Distribution file: ", fs[k]["file"]>>,
    hashes |-> <<[alg |-> "sha256", content |-> <<"abcd">>]>>] :
     k \in {n \in 1..Len(fs) : fs[n]["hash"] = GoodHash}}

Warned(i, k) == \E n \in 1..Len(warnings) : warnings[n] = <<i, k>>

\* the exception left the package loop, at entry idx
RaisedInLoop == pc = "raised" /\ Loaded /\ idx <= Len(Entries)

\* C3: a descriptor with a malformed hash loses only its own reference, and
\* a warning is emitted for it: the component of an entry whose descriptors
\* all have a file and a hash carries exactly the references "Distribution
\* file: <file>" of the descriptors with a parsable hash (possibly none), the
\* suppressed exception never leaves the constructor, and the package loop
\* fails on no such entry.
C3_MalformedHashDropped ==
  /\ \A i \in 1..Len(_components) :
       LET fs == DescriptorsOf(Entries[i])
       IN  /\ _components[i].external_references =
                ExpectedRefs(Entries[i]["name"], Entries[i]["version"], fs)
           /\ \A k \in 1..Len(fs) : Warned(i, k) <=> fs[k]["hash"] = BadHash
  /\ raised # "CycloneDxModelException"
  /\ RaisedInLoop => ~WellFormed(Entries[idx])

C3_Witness ==
  /\ pc = "done"
  /\ Len(_components) = 1
  /\ LET fs == DescriptorsOf(Entries[1])
     IN  /\ Len(fs) = 2
         /\ fs[1]["hash"] = BadHash
         /\ fs[2]["hash"] = GoodHash
         /\ fs[2]["file"] = "f2"
  /\ Cardinality(parser[1].components[1].external_references) = 1
  /\ \E r \in parser[1].components[1].external_references :
       r.comment = <<"Distribution file: ", "f2">>
  /\ warnings = <<(<<1, 1>>)>>

\* C10: the descriptors of an entry are found by one comparison of the
\* detected generation with (2,): from (2,) on they are the entry's own
\* files and metadata.files plays no part (it may be missing), below (2,)
\* they are metadata.files[name] and the entry's files play no part; a
\* lock-version that fell back to (0,) is read the old way.
C10_Dispatch ==
  /\ \A i \in 1..Len(_components) :
       LET name == Entries[i]["name"]
           version == Entries[i]["version"]
       IN  IF poetry_lock_version[1] >= 2
           THEN /\ HasKey(Entries[i], "files")
                /\ _components[i].external_references =
                     ExpectedRefs(name, version, Entries[i]["files"])
           ELSE /\ HasKey(poetry_lock["metadata"], "files")
                /\ HasKey(poetry_lock["metadata"]["files"], name)
                /\ _components[i].external_references =
                     ExpectedRefs(name, version,
                                  poetry_lock["metadata"]["files"][name])
  /\ (RaisedInLoop /\ Identified(Entries[idx])) =>
       IF poetry_lock_version[1] >= 2
       THEN ~(/\ HasKey(Entries[idx], "files")
              /\ \A k \in 1..Len(Entries[idx]["files"]) :
                   Complete(Entries[idx]["files"][k]))
       ELSE LET metadata == poetry_lock["metadata"]
                name == Entries[idx]["name"]
            IN  ~(/\ HasKey(metadata, "files")
                  /\ HasKey(metadata["files"], name)
                  /\ \A k \in 1..Len(metadata["files"][name]) :
                       Complete(metadata["files"][name][k]))
  /\ (Loaded /\ pc # "init" /\ ~HasKey(poetry_lock["metadata"], "lock-version"))
       => poetry_lock_version = <<0>>

C10_Witness ==
  /\ pc = "done"
  /\ Len(_components) = 1
  /\ HasKey(poetry_lock["metadata"], "lock-version")
  /\ poetry_lock["metadata"]["lock-version"] = <<"g">>
  /\ poetry_lock_version = <<0>>
  /\ HasKey(Entries[1], "files")
  /\ Entries[1]["files"] = <<F1Good>>
  /\ _components[1].external_references = ExpectedRefs("a", "1", <<F2Good>>)

\* a lock-version with a part that int() rejects: a letter, an empty part,
\* a sign that is not followed by a digit or not at the start of its part
NonNumeric(v) ==
  \/ Len(v) = 0
  \/ \E i \in 1..Len(v) :
       \/ v[i] = "g"
       \/ v[i] = "." /\ (i = 1 \/ i = Len(v) \/ v[i + 1] = ".")
       \/ v[i] = "-" /\ (i = Len(v) \/ v[i + 1] \in {".", "-", "g"})
       \/ v[i] = "-" /\ i > 1 /\ v[i - 1] # "."

Dots(v) == Cardinality({i \in 1..Len(v) : v[i] = "."})

\* C5: the generation is the tuple of the dot-separated integers of
\* metadata.lock-version ("1.1" gives (1,1), "2.0" gives (2,0)); when the
\* field is missing from the metadata or a part of it is not a number the
\* generation is (0,), and the step raises nothing for it: the constructor
\* goes on to the package loop.
C5_LockVersion ==
  [][(pc = "init" /\ HasKey(poetry_lock, "metadata")) =>
       LET metadata == poetry_lock["metadata"]
           v == metadata["lock-version"]
       IN  /\ (HasKey(poetry_lock, "package") => pc' = "package" /\ raised' = "")
           /\ IF ~HasKey(metadata, "lock-version") \/ NonNumeric(v)
              THEN poetry_lock_version' = <<0>>
              ELSE /\ Len(poetry_lock_version') = Dots(v) + 1
                   /\ v = <<"1", ".", "1">> => poetry_lock_version' = <<1, 1>>
                   /\ v = <<"2", ".", "0">> => poetry_lock_version' = <<2, 0>>
                   /\ v = <<"1", "2">> => poetry_lock_version' = <<12>>
                   /\ v = <<"-", "1">> => poetry_lock_version' = <<0 - 1>>
                   /\ v = <<"0", ".", "2">> => poetry_lock_version' = <<0, 2>>]_vars

C5_Witness ==
  /\ pc = "package"
  /\ HasKey(poetry_lock["metadata"], "lock-version")
  /\ poetry_lock["metadata"]["lock-version"] = <<"1", ".", "g">>
  /\ poetry_lock_version = <<0>>

MalformedManifest ==
  /\ Len(pyproject_toml_contents) > 0
  /\ LET poetry_toml == pyproject_toml_contents[1]
     IN  ~(/\ HasKey(poetry_toml, "tool")
           /\ HasKey(poetry_toml["tool"], "poetry")
           /\ HasKey(poetry_toml["tool"]["poetry"], "name")
           /\ HasKey(poetry_toml["tool"]["poetry"], "version"))

\* C7: a fatal error leaves the caller with no component list: the caller
\* obtains a parser only from a constructor that returned, and then the
\* list holds one component per entry; a lock with an entry that lacks its
\* name or version, wherever it stands, and a malformed manifest, end in an
\* exception and no parser.
C7_Atomic ==
  /\ pc # "done" => parser = <<>>
  /\ pc = "done" =>
       /\ Len(parser) = 1
       /\ Len(parser[1].components) = Len(Entries)
       /\ \A i \in 1..Len(Entries) :
            /\ Identified(Entries[i])
            /\ parser[1].components[i].name = Entries[i]["name"]
  /\ (Terminated /\ Loaded /\ \E i \in 1..Len(Entries) : ~Identified(Entries[i]))
       => pc = "raised"
  /\ (Terminated /\ MalformedManifest) => pc = "raised"

C7_Witness ==
  /\ pc = "raised"
  /\ Loaded
  /\ Len(Entries) = 2
  /\ Identified(Entries[1])
  /\ ~Identified(Entries[2])
  /\ Len(_components) = 1
  /\ parser = <<>>

\* the generation-2 document with the same packages and descriptors: each
\* entry carries inline what metadata.files holds under its name
Gen2Twin(lock) ==
  ("metadata" :> ("lock-version" :> <<"2", ".", "0">>))
    @@ ("package" :>
          [i \in 1..Len(lock["package"]) |->
             LET package == lock["package"][i]
             IN  [k \in DOMAIN package \cup {"files"} |->
                    IF k = "files"
                    THEN lock["metadata"]["files"][package["name"]]
                    ELSE package[k]]])

\* the generation-1 document with the same packages and descriptors: the
\* inline descriptors move to metadata.files under the entry's name
Gen1Twin(lock) ==
  LET packages == lock["package"]
      names == {packages[i]["name"] : i \in 1..Len(packages)}
      at(name) == CHOOSE i \in 1..Len(packages) : packages[i]["name"] = name
  IN  ("metadata" :> (("lock-version" :> <<"1", ".", "1">>)
                        @@ ("files" :> [n \in names |-> packages[at(n)]["files"]])))
        @@ ("package" :>
              [i \in 1..Len(packages) |->
                 [k \in DOMAIN packages[i] \ {"files"} |-> packages[i][k]]])

\* entries of one name carry the same descriptors, as one table entry must
SameNameSameFiles ==
  \A i, j \in 1..Len(Entries) :
    Entries[i]["name"] = Entries[j]["name"] => Entries[i]["files"] = Entries[j]["files"]

\* C4: a generation-1 document (descriptors in metadata.files, by name) and
\* the generation-2 document of the same packages and descriptors
\* (descriptors inline) convert to the same component list: same length and
\* order, and per component the same name, version, identifier, reference
\* key, group annotation and external references.
C4_Equivalence ==
  pc = "done" =>
    IF NewGeneration
    THEN SameNameSameFiles =>
           convert(Gen1Twin(poetry_lock), use_purl_bom_ref)
             = [raised |-> "", components |-> parser[1].components]
    ELSE convert(Gen2Twin(poetry_lock), use_purl_bom_ref)
           = [raised |-> "", components |-> parser[1].components]

C4_Witness ==
  /\ pc = "done"
  /\ ~NewGeneration
  /\ Len(Entries) = 2
  /\ Entries[1]["name"] = "a" /\ Entries[2]["name"] = "b"
  /\ HasKey(Entries[1], "category")
  /\ Cardinality(parser[1].components[1].external_references) = 1
  /\ parser[1].components[2].external_references = {}
  /\ convert(Gen2Twin(poetry_lock), use_purl_bom_ref).components
       = parser[1].components

\* an entry with no file descriptors: an empty list, or under the older
\* schema no entry for its name in metadata.files
NoDescriptors(package) ==
  IF NewGeneration
  THEN HasKey(package, "files") /\ package["files"] = <<>>
  ELSE /\ HasKey(poetry_lock["metadata"], "files")
       /\ LET table == poetry_lock["metadata"]["files"]
          IN  HasKey(table, package["name"]) => table[package["name"]] = <<>>

\* C2: an entry with no file descriptors yields a component with no
\* external reference and does not make the conversion fail, also when the
\* older schema's metadata.files has no entry for the package's name.
C2_NoDescriptorsNoFailure ==
  /\ \A i \in 1..Len(_components) :
       NoDescriptors(Entries[i]) => _components[i].external_references = {}
  /\ (RaisedInLoop /\ Identified(Entries[idx])) => ~NoDescriptors(Entries[idx])

\* the lock handed to the constructor converts
LockConverts ==
  IF cls = "PoetryParser"
  THEN convert(poetry_lock, use_purl_bom_ref).raised = ""
  ELSE /\ HasKey(disk, poetry_lock_filename)
       /\ convert(load_toml(disk[poetry_lock_filename]), use_purl_bom_ref).raised = ""

NoManifest ==
  IF cls = "PoetryParser"
  THEN pyproject_toml_contents = EmptyText
  ELSE poetry_toml_filename = ""

\* a manifest is handed over: a non-empty text, or a file that holds one
ManifestGiven ==
  IF cls = "PoetryParser"
  THEN Len(pyproject_toml_contents) > 0
  ELSE HasKey(disk, poetry_toml_filename) /\ Len(disk[poetry_toml_filename]) > 0

Manifest ==
  IF cls = "PoetryParser"
  THEN pyproject_toml_contents[1]
  ELSE disk[poetry_toml_filename][1]

Named(poetry_toml) ==
  /\ HasKey(poetry_toml, "tool")
  /\ HasKey(poetry_toml["tool"], "poetry")
  /\ HasKey(poetry_toml["tool"]["poetry"], "name")
  /\ HasKey(poetry_toml["tool"]["poetry"], "version")

\* C6: root metadata is produced exactly when a manifest is supplied: with
\* no manifest the conversion succeeds, the root metadata is absent and the
\* component list is complete; with a manifest that has tool.poetry.name
\* and tool.poetry.version the root metadata is a component of that name
\* and version, outside the component list; with a manifest that lacks
\* either the constructor fails.
C6_RootMetadata ==
  /\ (Terminated /\ LockConverts /\ NoManifest) =>
       /\ pc = "done"
       /\ parser[1].metadata = None
       /\ Len(parser[1].components) = Len(Entries)
  /\ (Terminated /\ LockConverts /\ ManifestGiven /\ Named(Manifest)) =>
       /\ pc = "done"
       /\ parser[1].metadata = [name |-> Manifest["tool"]["poetry"]["name"],
                                version |-> Manifest["tool"]["poetry"]["version"]]
       /\ Len(parser[1].components) = Len(Entries)
       /\ \A i \in 1..Len(Entries) : parser[1].components[i] # parser[1].metadata
  /\ (Terminated /\ ManifestGiven /\ ~Named(Manifest)) => pc = "raised"

====
